---- MODULE Spec2Model ----
(***************************************************************************)
(* Model of src/app.py: the memoised loader load_data, the "Golden Cross"  *)
(* backtest run_backtest, and the single-stock part of the Streamlit       *)
(* script (lines 125-216), which Streamlit re-executes top to bottom on    *)
(* every user interaction.                                                 *)
(*                                                                         *)
(* Numbers.  pandas columns are float64.  A float is modelled as a record  *)
(* [n, d]: d > 0 is the rational n/d in lowest terms, d = 0 is a           *)
(* non-finite value (n = 0 NaN, n = 1 +inf, n = -1 -inf).  Arithmetic is   *)
(* exact; on the small integer inputs used here float rounding is monotone *)
(* and cannot turn a strict order into an equality or back, so every       *)
(* comparison agrees with float64.  The sign of zero is not tracked.       *)
(*                                                                         *)
(* Frames.  A DataFrame is [cols, rows]: the set of column names and the   *)
(* sequence of rows (records), in date order.  A row holds the values of   *)
(* the columns the script computes with (Close, SMA50, SMA200, and Signal  *)
(* and Position once run_backtest has added them).  RSI and the three MACD *)
(* columns are only drawn, so a row keeps of them what dropna() needs: the *)
(* set na of those that are NaN in that row.  Open, High, Low and Volume   *)
(* are kept the same way: na holds "OHLV" in a row where the supplier left *)
(* one of them NaN.  The supplier's Close is taken to be complete.         *)
(*                                                                         *)
(* Indicators are pandas_ta's: an indicator whose length exceeds the       *)
(* series appends no column; RSI is 0/0 = NaN while the closes have not    *)
(* moved since the first row, unless pandas_ta finds TA-Lib installed,     *)
(* whose RSI is 0 there; without TA-Lib a series too short for the MACD    *)
(* signal line makes macd() raise.  talib says which build runs.           *)
(*                                                                         *)
(* The lengths 50, 200, 14 and 12/26/9 are scaled down to FastLen,         *)
(* SlowLen, RsiLen and MacdFast/MacdSlow/MacdSignal, keeping RSI and MACD  *)
(* defined wherever SMA200 is.                                             *)
(*                                                                         *)
(* Streamlit.  A script run can be stopped at any st.* call when a rerun   *)
(* is pending (the exception it raises is not an Exception, so line 44     *)
(* does not catch it).  load_data calls st.* only at line 45, so a call    *)
(* that fails can end there with nothing stored; a call that succeeds runs *)
(* from the supplier's answer to the store without such a point.  The      *)
(* cache stores are shared by all sessions: the run_backtest of another    *)
(* session can have stored the portfolio this session asks for, and while  *)
(* this session's load_data waits for the supplier, the load_data of       *)
(* another session can run.                                                *)
(* Whether a call for a key that is being computed waits for the result    *)
(* (a per-key lock, with a second lookup once the lock is held) or         *)
(* computes and stores it as well depends on the Streamlit build: key_lock *)
(* says which.                                                             *)
(*                                                                         *)
(* Spec is the script with its two caches, run again and again.            *)
(* SpecBacktest applies run_backtest and the summary to every frame of two *)
(* rows or more that load_data produces from a bounded close series.       *)
(***************************************************************************)
EXTENDS Integers, Sequences, FiniteSets, TLC

VARIABLES
    talib,            \* the build: pandas_ta finds TA-Lib installed
    key_lock,         \* the build: st.cache_data computes a key under a lock
    pc,               \* position of the script run
    ticker,           \* sidebar input, the key of load_data
    initial_capital,  \* number input of line 196
    df,               \* the frame of this run
    portfolio,        \* what run_backtest returned
    metrics,          \* key metrics of lines 135-138
    summary,          \* performance summary of lines 200-202
    outcome,          \* how the run ended
    load_cache,       \* st.cache_data store of load_data
    cache_src,        \* the supplier answer behind each stored frame
    bt_cache,         \* st.cache_data store of run_backtest
    supplier_calls,   \* calls of yf.download, per key
    supplied,         \* the supplier answer behind the frame of this run
    other,            \* the key another session's load_data is computing
    returned,         \* the keys for which a load_data call has returned
    settled,          \* stored results that no running call can replace
    late_calls,       \* supplier calls for a key made after it settled
    last_load,        \* how this run's load_data call was served
    stages,           \* the stages this run has gone through
    df_before         \* the frame as it was when run_backtest was called

build == <<talib, key_lock>>

vars == <<build, pc, ticker, initial_capital, df, portfolio, metrics, summary,
          outcome, load_cache, cache_src, bt_cache, supplier_calls, supplied,
          other, returned, settled, late_calls, last_load, stages, df_before>>

-----------------------------------------------------------------------------
(* Bounds and program constants *)

FastLen == 2
SlowLen == 5
RsiLen == 2
MacdFast == 1
MacdSlow == 2
MacdSignal == 2
MaxLen == 6
MaxPrice == 3
MaxStep == 2
MaxCalls == 2

InitialCapital == 10000
CapitalStep == 1000

Capitals == {InitialCapital, InitialCapital + CapitalStep}

Keys == {"AAPL", "MSFT"}

-----------------------------------------------------------------------------
(* float64 *)

Abs(i) == IF i < 0 THEN -i ELSE i

Sign(i) == IF i > 0 THEN 1 ELSE IF i < 0 THEN -1 ELSE 0

RECURSIVE Gcd(_, _)
Gcd(a, b) == IF b = 0 THEN a ELSE Gcd(b, a % b)

Norm(n, d) ==
    IF d = 0 THEN [n |-> Sign(n), d |-> 0]
    ELSE LET g == Gcd(Abs(n), Abs(d))
         IN  [n |-> (Sign(d) * n) \div g, d |-> Abs(d) \div g]

NaN == [n |-> 0, d |-> 0]

FromInt(i) == [n |-> i, d |-> 1]

IsNaN(x) == x.d = 0 /\ x.n = 0

FAdd(a, b) ==
    IF a.d = 0 /\ b.d = 0
    THEN (IF a.n = b.n THEN a ELSE NaN)
    ELSE Norm(a.n * b.d + b.n * a.d, a.d * b.d)

FNeg(a) == [n |-> -a.n, d |-> a.d]

FSub(a, b) == FAdd(a, FNeg(b))

FMul(a, b) == Norm(a.n * b.n, a.d * b.d)

FDiv(a, b) == Norm(a.n * b.d * Sign(b.n) + (IF b.n = 0 THEN a.n * b.d ELSE 0),
                   a.d * Abs(b.n))

FGt(a, b) ==
    /\ ~IsNaN(a)
    /\ ~IsNaN(b)
    /\ IF a.d = 0 /\ b.d = 0 THEN a.n > b.n ELSE a.n * b.d > b.n * a.d

FEq(a, b) == ~IsNaN(a) /\ ~IsNaN(b) /\ a = b

-----------------------------------------------------------------------------
(* pandas column operations *)

\* a column as the sequence of its rows, each row computed once
RECURSIVE FirstRows(_, _)
FirstRows(f, n) == IF n = 0 THEN <<>> ELSE Append(FirstRows(f, n - 1), f[n])

ColumnOf(f) == FirstRows(f, Cardinality(DOMAIN f))

RECURSIVE SumInts(_, _, _)
SumInts(s, lo, hi) == IF lo > hi THEN 0 ELSE s[hi] + SumInts(s, lo, hi - 1)

\* Series.rolling(w).mean(): undefined on the first w-1 rows
sma(closes, w) ==
    ColumnOf([t \in 1..Len(closes) |->
                IF t < w THEN NaN ELSE Norm(SumInts(closes, t - w + 1, t), w)])

\* Series.diff(): the first row has no predecessor
Diff(s) ==
    ColumnOf([t \in 1..Len(s) |->
                IF t = 1 THEN NaN ELSE FromInt(s[t] - s[t - 1])])

RECURSIVE RunSum(_, _)
RunSum(s, t) ==
    IF t = 0 THEN FromInt(0)
    ELSE IF IsNaN(s[t]) THEN RunSum(s, t - 1)
    ELSE FAdd(RunSum(s, t - 1), s[t])

\* Series.cumsum(): NaN rows stay NaN and are skipped by the running sum
CumSum(s) ==
    ColumnOf([t \in 1..Len(s) |-> IF IsNaN(s[t]) THEN NaN ELSE RunSum(s, t)])

\* Series.pct_change()
PctChange(s) ==
    ColumnOf([t \in 1..Len(s) |->
                IF t = 1 THEN NaN ELSE FSub(FDiv(s[t], s[t - 1]), FromInt(1))])

\* DataFrame.dropna(): keep the rows that have no NaN
HasNaN(row) ==
    \/ row.na # {}
    \/ \E c \in DOMAIN row \ {"na"} : IsNaN(row[c])

dropna(frame) ==
    [cols |-> frame.cols,
     rows |-> SelectSeq(frame.rows, LAMBDA r : ~HasNaN(r))]

\* pd.DataFrame()
EmptyFrame == [cols |-> {}, rows |-> <<>>]

\* an emptiness test that looks for a missing frame (None), not for no rows
EmptyNever(frame) == FALSE

\* DataFrame.empty
Empty(frame) == frame.cols = {} \/ Len(frame.rows) = 0

Last(s) == s[Len(s)]

-----------------------------------------------------------------------------
(* load_data: the body behind the cache (lines 21-46) *)

Max(a, b) == IF a >= b THEN a ELSE b

\* pandas_ta's verify_series: an indicator of this length is computed
Fits(closes, length) == Len(closes) >= length

MacdLen == Max(MacdFast, Max(MacdSlow, MacdSignal))

\* line 31: whether RSI is NaN on row t
rsi_isna(closes, t) ==
    \/ t <= RsiLen
    \/ ~talib /\ \A i \in 1..t : closes[i] = closes[1]

\* line 32: the MACD columns that are NaN on row t
macd_na(t) ==
    (IF t < MacdSlow \/ (talib /\ t < MacdSlow + MacdSignal - 1)
     THEN {"MACD"} ELSE {})
    \cup (IF t < MacdSlow + MacdSignal - 1
          THEN {"MACD_hist", "MACD_signal"} ELSE {})

\* line 32: macd() subtracts a signal line that ema() did not compute
macd_raises(closes) ==
    /\ ~talib
    /\ Fits(closes, MacdLen)
    /\ Len(closes) - MacdSlow + 1 < MacdSignal

\* lines 22-41: the supplier's rows with the indicator columns appended; gaps
\* are the dates on which the supplier left Open, High, Low or Volume NaN
with_indicators(closes, gaps) ==
    LET fast == sma(closes, FastLen)      \* line 29
        slow == sma(closes, SlowLen)      \* line 30
        cell(t) ==
            [Close |-> FromInt(closes[t]),
             na    |-> (IF t \in gaps THEN {"OHLV"} ELSE {})
                       \cup (IF Fits(closes, RsiLen) /\ rsi_isna(closes, t)
                             THEN {"RSI"} ELSE {})
                       \cup (IF Fits(closes, MacdLen) THEN macd_na(t) ELSE {})]
            @@ (IF Fits(closes, FastLen) THEN [SMA50 |-> fast[t]] ELSE <<>>)
            @@ (IF Fits(closes, SlowLen) THEN [SMA200 |-> slow[t]] ELSE <<>>)
    IN  [cols |-> {"Close"}
                  \cup (IF Fits(closes, FastLen) THEN {"SMA50"} ELSE {})
                  \cup (IF Fits(closes, SlowLen) THEN {"SMA200"} ELSE {})
                  \cup (IF Fits(closes, RsiLen) THEN {"RSI"} ELSE {})
                  \cup (IF Fits(closes, MacdLen)
                        THEN {"MACD", "MACD_hist", "MACD_signal"} ELSE {}),
         rows |-> ColumnOf([t \in 1..Len(closes) |-> cell(t)])]

\* o is what yf.download did: [kind |-> "fail"] raised, [kind |-> "rows"]
\* returned the rows whose closes are o.closes, with a NaN outside Close on
\* the dates o.gaps.  Whether the body of
\* load_data ends in its except branch (lines 44-46)
load_data_raises(o) ==
    \/ o.kind = "fail"
    \/ Len(o.closes) > 0 /\ macd_raises(o.closes)

\* what load_data returns
load_data(o) ==
    IF load_data_raises(o) THEN EmptyFrame             \* line 46
    ELSE IF Len(o.closes) = 0 THEN EmptyFrame          \* lines 23-24
    ELSE dropna(with_indicators(o.closes, o.gaps))     \* lines 29-43

\* a store that keeps only the frames that have rows
StoreUnlessEmpty(cache, k, v) ==
    IF Empty(v) THEN cache
    ELSE [x \in DOMAIN cache \cup {k} |-> IF x = k THEN v ELSE cache[x]]

\* lines 16, 49, 62: st.cache_data keeps every returned value, an empty frame
\* included, and never expires or replaces it
CacheStore(cache, k, v) ==
    [x \in DOMAIN cache \cup {k} |-> IF x = k THEN v ELSE cache[x]]

-----------------------------------------------------------------------------
(* run_backtest: the body behind the cache (lines 67-77) *)

\* the comparison of line 68 written with >= in place of >
LongMaskGe(row) == FGt(row.SMA50, row.SMA200) \/ FEq(row.SMA50, row.SMA200)

\* line 68: the rows selected by data['SMA50'] > data['SMA200']
LongMask(row) == FGt(row.SMA50, row.SMA200)

\* lines 67-68
SignalCol(data) ==
    ColumnOf([t \in 1..Len(data.rows) |->
                IF LongMask(data.rows[t]) THEN 1 ELSE 0])

\* line 69
PositionCol(data) == Diff(SignalCol(data))

\* line 72
HoldingsCol(data, cap) ==
    LET position == PositionCol(data)
    IN  CumSum(ColumnOf([t \in 1..Len(data.rows) |->
                           FDiv(FMul(position[t], FromInt(cap)),
                                data.rows[t].Close)]))

\* line 73
CashCol(data, cap) ==
    LET position == PositionCol(data)
        holdings == HoldingsCol(data, cap)
        spent    == CumSum(ColumnOf([t \in 1..Len(data.rows) |->
                                       FMul(position[t], holdings[t])]))
    IN  ColumnOf([t \in 1..Len(data.rows) |-> FSub(FromInt(cap), spent[t])])

\* line 74
TotalCol(data, cap) ==
    LET holdings == HoldingsCol(data, cap)
        cash     == CashCol(data, cap)
    IN  ColumnOf([t \in 1..Len(data.rows) |->
                    FAdd(cash[t], FMul(holdings[t], data.rows[t].Close))])

\* lines 71-77: the frame run_backtest returns
run_backtest(data, cap) ==
    LET h == HoldingsCol(data, cap)
        c == CashCol(data, cap)
        v == TotalCol(data, cap)
        r == PctChange(v)
    IN  ColumnOf([t \in 1..Len(data.rows) |->
                    [Holdings |-> h[t], Cash |-> c[t],
                     Total |-> v[t], Returns |-> r[t]]])

\* lines 67-69: what run_backtest leaves in the frame it was given
backtest_data(data) ==
    LET signal   == SignalCol(data)
        position == PositionCol(data)
    IN  [cols |-> data.cols \cup {"Signal", "Position"},
         rows |-> ColumnOf([t \in 1..Len(data.rows) |->
                             data.rows[t]
                             @@ [Signal |-> signal[t], Position |-> position[t]]])]

\* line 67 alone: what run_backtest leaves in a frame that has no SMA50 or no
\* SMA200 column, on which line 68 raises KeyError
signal_only(data) ==
    [cols |-> data.cols \cup {"Signal"},
     rows |-> ColumnOf([t \in 1..Len(data.rows) |->
                         data.rows[t] @@ [Signal |-> 0]])]

\* st.cache_data keys run_backtest on the frame's content and the capital
BtKey(data, cap) == [data |-> data, cap |-> cap]

-----------------------------------------------------------------------------
(* the script: lines 135-138 and 200-202 *)

key_metrics(frame) ==
    LET latest_price == frame.rows[Len(frame.rows)].Close
        prev_price   == frame.rows[Len(frame.rows) - 1].Close
        price_change == FSub(latest_price, prev_price)
    IN  [latest_price |-> latest_price,
         prev_price   |-> prev_price,
         price_change |-> price_change,
         pct_change   |-> FMul(FDiv(price_change, prev_price), FromInt(100))]

performance(frame, pf, cap) ==
    LET final_value == Last(pf).Total
    IN  [final_value     |-> final_value,
         total_return    |-> FMul(FDiv(FSub(final_value, FromInt(cap)), FromInt(cap)),
                                  FromInt(100)),
         buy_hold_return |-> FMul(FSub(FDiv(Last(frame.rows).Close,
                                            frame.rows[1].Close),
                                       FromInt(1)),
                                  FromInt(100))]

NoMetrics == [latest_price |-> NaN, prev_price |-> NaN,
              price_change |-> NaN, pct_change |-> NaN]

NoSummary == [final_value |-> NaN, total_return |-> NaN, buy_hold_return |-> NaN]

-----------------------------------------------------------------------------
(* what the data supplier (yf.download, line 22) can answer *)

Fail == [kind |-> "fail", closes |-> <<>>, gaps |-> {}]

Rows(closes, gaps) == [kind |-> "rows", closes |-> closes, gaps |-> gaps]

NotAsked == [kind |-> "none", closes |-> <<>>, gaps |-> {}]

\* complete rows, or a last row with a NaN outside Close
GapSets(n) == IF n = 0 THEN {{}} ELSE {{}, {n}}

\* n closes starting at a and moving by b a day
Trend(n, a, b) == FirstRows([t \in 1..n |-> a + b * (t - 1)], n)

\* the script's supplier: a failure, no rows, one row, a rising series too
\* short for SMA200, and a flat and a rising series long enough for it, the
\* rising one also with an incomplete last row
SupplierOutcomes ==
    {Fail, Rows(<<>>, {}), Rows(Trend(1, 1, 0), {}),
     Rows(Trend(SlowLen - 1, 1, 1), {}), Rows(Trend(SlowLen + 1, 1, 0), {})}
    \cup {Rows(Trend(SlowLen + 1, 1, 1), g) : g \in GapSets(SlowLen + 1)}

\* the supplier of another session's run: a failure, or a rising series long
\* enough for SMA200
OtherOutcomes == {Fail, Rows(Trend(SlowLen + 1, 1, 1), {})}

BacktestInputs ==
    {Rows(c, {}) : c \in UNION {[1..n -> 1..MaxPrice] : n \in 1..MaxLen}}
    \cup {Rows(Trend(n, a, b), {}) : n \in 1..MaxLen, a \in 1..MaxPrice, b \in 1..MaxStep}

NoCache == [x \in {} |-> EmptyFrame]

NoSources == [x \in {} |-> NotAsked]

-----------------------------------------------------------------------------
(* the cache of load_data, shared with the runs of other sessions *)

\* a call of load_data for key k has looked k up, missed, and not returned
InFlight(k, p, tk, oth) == (p \in {"download", "error"} /\ tk = k) \/ oth = k

\* st.cache_data with the per-key lock: a call for a key being computed waits
MayCompute(k, holder) == key_lock => holder # k

\* the stored results no running call can replace any more
SettledAfter(cache, p, tk, oth) ==
    [k \in {x \in DOMAIN cache : x \in DOMAIN settled \/ ~InFlight(x, p, tk, oth)} |->
        IF k \in DOMAIN settled THEN settled[k] ELSE cache[k]]

LateCall(k) == [late_calls EXCEPT ![k] = IF k \in DOMAIN settled THEN @ + 1 ELSE @]

-----------------------------------------------------------------------------
(* the script run *)

Init ==
    /\ talib \in BOOLEAN
    /\ key_lock \in BOOLEAN
    /\ pc = "input"
    /\ ticker = "AAPL"
    /\ initial_capital = InitialCapital
    /\ df = EmptyFrame
    /\ portfolio = <<>>
    /\ metrics = NoMetrics
    /\ summary = NoSummary
    /\ outcome = "none"
    /\ load_cache = NoCache
    /\ cache_src = NoSources
    /\ bt_cache = NoCache
    /\ supplier_calls = [k \in Keys |-> 0]
    /\ supplied = NotAsked
    /\ other = "none"
    /\ returned = {}
    /\ settled = NoCache
    /\ late_calls = [k \in Keys |-> 0]
    /\ last_load = "none"
    /\ stages = {}
    /\ df_before = EmptyFrame

\* lines 83-85: a user interaction starts a new run of the script
UserInput ==
    /\ pc = "input"
    /\ \E k \in Keys : ticker' = k
    /\ pc' = "load"
    /\ df' = EmptyFrame
    /\ portfolio' = <<>>
    /\ metrics' = NoMetrics
    /\ summary' = NoSummary
    /\ outcome' = "none"
    /\ supplied' = NotAsked
    /\ last_load' = "none"
    /\ stages' = {}
    /\ df_before' = EmptyFrame
    /\ UNCHANGED <<build, initial_capital, load_cache, cache_src, bt_cache,
                   supplier_calls, other, returned, settled, late_calls>>

\* a user interaction while the script runs stops it at its next st.* call
\* (lines 125-216 outside load_data, line 45 inside it) and starts a new run
Rerun ==
    /\ pc \in {"load", "error", "check", "backtest", "summary"}
    /\ \E k \in Keys : ticker' = k
    /\ pc' = "load"
    /\ df' = EmptyFrame
    /\ portfolio' = <<>>
    /\ metrics' = NoMetrics
    /\ summary' = NoSummary
    /\ outcome' = "none"
    /\ supplied' = NotAsked
    /\ last_load' = "none"
    /\ stages' = {}
    /\ df_before' = EmptyFrame
    /\ settled' = SettledAfter(load_cache, "load", ticker', other)
    /\ UNCHANGED <<build, initial_capital, load_cache, cache_src, bt_cache,
                   supplier_calls, other, returned, late_calls>>

\* line 128, key not cached: the body starts and calls the supplier (line 22)
load_data_call ==
    /\ pc = "load"
    /\ ticker \notin DOMAIN load_cache
    /\ MayCompute(ticker, other)
    /\ supplier_calls[ticker] < MaxCalls
    /\ supplier_calls' = [supplier_calls EXCEPT ![ticker] = @ + 1]
    /\ late_calls' = LateCall(ticker)
    /\ stages' = stages \cup {"invoked"}
    /\ pc' = "download"
    /\ UNCHANGED <<build, ticker, initial_capital, df, portfolio, metrics, summary,
                   outcome, load_cache, cache_src, bt_cache, supplied, other,
                   returned, settled, last_load, df_before>>

\* lines 22-43: the supplier answers, nothing raises, and the value returned
\* is stored
load_data_miss ==
    /\ pc = "download"
    /\ \E o \in SupplierOutcomes :
          /\ ~load_data_raises(o)
          /\ LET data == load_data(o)
             IN  /\ supplied' = o
                 /\ df' = data
                 /\ load_cache' = CacheStore(load_cache, ticker, data)
                 /\ cache_src' = [x \in DOMAIN cache_src \cup {ticker} |->
                                    IF x = ticker THEN o ELSE cache_src[x]]
    /\ returned' = returned \cup {ticker}
    /\ settled' = SettledAfter(load_cache', "check", ticker, other)
    /\ last_load' = "miss"
    /\ stages' = stages \cup {"load"}
    /\ pc' = "check"
    /\ UNCHANGED <<build, ticker, initial_capital, portfolio, metrics, summary,
                   outcome, bt_cache, supplier_calls, other, late_calls, df_before>>

\* lines 22-45: the supplier or an indicator raises, and the except branch
\* reaches st.error
load_data_except ==
    /\ pc = "download"
    /\ \E o \in SupplierOutcomes :
          /\ load_data_raises(o)
          /\ supplied' = o
    /\ pc' = "error"
    /\ UNCHANGED <<build, ticker, initial_capital, df, portfolio, metrics, summary,
                   outcome, load_cache, cache_src, bt_cache, supplier_calls,
                   other, returned, settled, late_calls, last_load, stages,
                   df_before>>

\* line 46: the except branch returns the empty frame, which is stored
load_data_error_return ==
    /\ pc = "error"
    /\ LET data == load_data(supplied)
       IN  /\ df' = data
           /\ load_cache' = CacheStore(load_cache, ticker, data)
    /\ cache_src' = [x \in DOMAIN cache_src \cup {ticker} |->
                       IF x = ticker THEN supplied ELSE cache_src[x]]
    /\ returned' = returned \cup {ticker}
    /\ settled' = SettledAfter(load_cache', "check", ticker, other)
    /\ last_load' = "miss"
    /\ stages' = stages \cup {"load"}
    /\ pc' = "check"
    /\ UNCHANGED <<build, ticker, initial_capital, portfolio, metrics, summary,
                   outcome, bt_cache, supplier_calls, supplied, other, late_calls,
                   df_before>>

\* line 128, key cached: a copy of the stored value, the body does not run
load_data_hit ==
    /\ pc = "load"
    /\ ticker \in DOMAIN load_cache
    /\ df' = load_cache[ticker]
    /\ supplied' = cache_src[ticker]
    /\ last_load' = IF ticker \in DOMAIN settled THEN "hit" ELSE "hit_in_flight"
    /\ stages' = stages \cup {"invoked", "load"}
    /\ pc' = "check"
    /\ UNCHANGED <<build, ticker, initial_capital, portfolio, metrics, summary,
                   outcome, load_cache, cache_src, bt_cache, supplier_calls,
                   other, returned, settled, late_calls, df_before>>

\* line 128 in the run of another session, key not cached: its call of the
\* supplier
other_load_data_call ==
    /\ other = "none"
    /\ \E k \in Keys :
          /\ k \notin DOMAIN load_cache
          /\ MayCompute(k, IF pc \in {"download", "error"} THEN ticker ELSE "none")
          /\ supplier_calls[k] < MaxCalls
          /\ supplier_calls' = [supplier_calls EXCEPT ![k] = @ + 1]
          /\ late_calls' = LateCall(k)
          /\ other' = k
    /\ UNCHANGED <<build, pc, ticker, initial_capital, df, portfolio, metrics,
                   summary, outcome, load_cache, cache_src, bt_cache, supplied,
                   returned, settled, last_load, stages, df_before>>

\* lines 22-46 in the run of another session: its load_data returns and the
\* value is stored
other_load_data_return ==
    /\ other # "none"
    /\ \E o \in OtherOutcomes :
          /\ load_cache' = CacheStore(load_cache, other, load_data(o))
          /\ cache_src' = [x \in DOMAIN cache_src \cup {other} |->
                             IF x = other THEN o ELSE cache_src[x]]
    /\ returned' = returned \cup {other}
    /\ other' = "none"
    /\ settled' = SettledAfter(load_cache', pc, ticker, "none")
    /\ UNCHANGED <<build, pc, ticker, initial_capital, df, portfolio, metrics,
                   summary, outcome, bt_cache, supplier_calls, supplied,
                   late_calls, last_load, stages, df_before>>

\* line 45 in the run of another session, stopped there by a rerun
other_load_data_stopped ==
    /\ other # "none"
    /\ other' = "none"
    /\ settled' = SettledAfter(load_cache, pc, ticker, "none")
    /\ UNCHANGED <<build, pc, ticker, initial_capital, df, portfolio, metrics,
                   summary, outcome, load_cache, cache_src, bt_cache,
                   supplier_calls, supplied, returned, late_calls, last_load,
                   stages, df_before>>

\* lines 130-131
NoDataWarning ==
    /\ pc = "check"
    /\ Empty(df)
    /\ outcome' = "warning"
    /\ stages' = stages \cup {"warning"}
    /\ pc' = "input"
    /\ UNCHANGED <<build, ticker, initial_capital, df, portfolio, metrics, summary,
                   load_cache, cache_src, bt_cache, supplier_calls, supplied,
                   other, returned, settled, late_calls, last_load, df_before>>

\* lines 156-186: the columns the charts read, given the two checkboxes
ChartColumns(show_sma50, show_sma200) ==
    (IF show_sma50 THEN {"SMA50"} ELSE {})
    \cup (IF show_sma200 THEN {"SMA200"} ELSE {})
    \cup {"RSI", "MACD", "MACD_hist", "MACD_signal"}

\* lines 132-186 on a frame of two rows or more that has every column the
\* charts read
KeyMetrics ==
    /\ pc = "check"
    /\ ~Empty(df)
    /\ Len(df.rows) >= 2
    /\ \E show_sma50, show_sma200 \in BOOLEAN :
          ChartColumns(show_sma50, show_sma200) \subseteq df.cols
    /\ metrics' = key_metrics(df)
    /\ stages' = stages \cup {"metrics"}
    /\ pc' = "backtest"
    /\ UNCHANGED <<build, ticker, initial_capital, df, portfolio, summary, outcome,
                   load_cache, cache_src, bt_cache, supplier_calls, supplied,
                   other, returned, settled, late_calls, last_load, df_before>>

\* line 136 on a frame of fewer than two rows: iloc[-2] raises IndexError,
\* nothing catches it, and the script run ends there
KeyMetricsIndexError ==
    /\ pc = "check"
    /\ ~Empty(df)
    /\ Len(df.rows) < 2
    /\ outcome' = "IndexError"
    /\ stages' = stages \cup {"metrics"}
    /\ pc' = "input"
    /\ UNCHANGED <<build, ticker, initial_capital, df, portfolio, metrics, summary,
                   load_cache, cache_src, bt_cache, supplier_calls, supplied,
                   other, returned, settled, late_calls, last_load, df_before>>

\* lines 132-186 on a frame of two rows or more that lacks a column a chart
\* reads: the key metrics are shown, then df[...] raises KeyError
ChartKeyError ==
    /\ pc = "check"
    /\ ~Empty(df)
    /\ Len(df.rows) >= 2
    /\ \E show_sma50, show_sma200 \in BOOLEAN :
          ~(ChartColumns(show_sma50, show_sma200) \subseteq df.cols)
    /\ metrics' = key_metrics(df)
    /\ outcome' = "KeyError"
    /\ stages' = stages \cup {"metrics"}
    /\ pc' = "input"
    /\ UNCHANGED <<build, ticker, initial_capital, df, portfolio, summary,
                   load_cache, cache_src, bt_cache, supplier_calls, supplied,
                   other, returned, settled, late_calls, last_load, df_before>>

\* lines 196-198, (frame, capital) not cached: the body runs on the caller's
\* frame and the portfolio is stored
run_backtest_miss ==
    /\ pc = "backtest"
    /\ {"SMA50", "SMA200"} \subseteq df.cols
    /\ \E cap \in Capitals :
          /\ initial_capital' = cap
          /\ BtKey(df, cap) \notin DOMAIN bt_cache
          /\ LET pf == run_backtest(df, cap)
             IN  /\ portfolio' = pf
                 /\ bt_cache' = CacheStore(bt_cache, BtKey(df, cap), pf)
    /\ df_before' = df
    /\ df' = backtest_data(df)
    /\ stages' = stages \cup {"backtest"}
    /\ pc' = "summary"
    /\ UNCHANGED <<build, ticker, metrics, summary, outcome, load_cache, cache_src,
                   supplier_calls, supplied, other, returned, settled, late_calls,
                   last_load>>

\* lines 196-198 on a frame without SMA50 or SMA200: line 67 adds the Signal
\* column, line 68 raises KeyError, and nothing is stored
run_backtest_KeyError ==
    /\ pc = "backtest"
    /\ ~({"SMA50", "SMA200"} \subseteq df.cols)
    /\ \E cap \in Capitals : initial_capital' = cap
    /\ df' = signal_only(df)
    /\ outcome' = "KeyError"
    /\ pc' = "input"
    /\ UNCHANGED <<build, ticker, portfolio, metrics, summary, load_cache,
                   cache_src, bt_cache, supplier_calls, supplied, other, returned,
                   settled, late_calls, last_load, stages, df_before>>

\* lines 196-198, (frame, capital) cached: the stored portfolio, the body
\* does not run
run_backtest_hit ==
    /\ pc = "backtest"
    /\ \E cap \in Capitals :
          /\ initial_capital' = cap
          /\ BtKey(df, cap) \in DOMAIN bt_cache
          /\ portfolio' = bt_cache[BtKey(df, cap)]
    /\ df_before' = df
    /\ stages' = stages \cup {"backtest"}
    /\ pc' = "summary"
    /\ UNCHANGED <<build, ticker, df, metrics, summary, outcome, load_cache,
                   cache_src, bt_cache, supplier_calls, supplied, other, returned,
                   settled, late_calls, last_load>>

\* lines 196-198 in the run of another session that has loaded a frame of
\* the same content, (frame, capital) not cached: its run_backtest stores
\* the portfolio in the store all sessions share.  The store is read only by
\* the lookup of line 198, so the step is taken where this session is about
\* to look up, for the frame it looks up
other_run_backtest ==
    /\ pc = "backtest"
    /\ {"SMA50", "SMA200"} \subseteq df.cols
    /\ \E cap \in Capitals :
          /\ BtKey(df, cap) \notin DOMAIN bt_cache
          /\ bt_cache' = CacheStore(bt_cache, BtKey(df, cap), run_backtest(df, cap))
    /\ UNCHANGED <<build, pc, ticker, initial_capital, df, portfolio, metrics,
                   summary, outcome, load_cache, cache_src, supplier_calls,
                   supplied, other, returned, settled, late_calls, last_load,
                   stages, df_before>>

\* lines 200-216
PerformanceSummary ==
    /\ pc = "summary"
    /\ summary' = performance(df, portfolio, initial_capital)
    /\ outcome' = "done"
    /\ stages' = stages \cup {"summary"}
    /\ pc' = "input"
    /\ UNCHANGED <<build, ticker, initial_capital, df, portfolio, metrics,
                   load_cache, cache_src, bt_cache, supplier_calls, supplied,
                   other, returned, settled, late_calls, last_load, df_before>>

Next ==
    \/ UserInput
    \/ Rerun
    \/ load_data_call
    \/ load_data_miss
    \/ load_data_except
    \/ load_data_error_return
    \/ load_data_hit
    \/ other_load_data_call
    \/ other_load_data_return
    \/ other_load_data_stopped
    \/ NoDataWarning
    \/ KeyMetrics
    \/ KeyMetricsIndexError
    \/ ChartKeyError
    \/ run_backtest_miss
    \/ run_backtest_KeyError
    \/ run_backtest_hit
    \/ other_run_backtest
    \/ PerformanceSummary

Spec == Init /\ [][Next]_vars

-----------------------------------------------------------------------------
(* run_backtest and the summary on every frame of two rows or more that     *)
(* load_data produces from a series of up to MaxLen closes                   *)

InitBacktest ==
    /\ talib \in BOOLEAN
    /\ key_lock = TRUE
    /\ pc = "backtest"
    /\ ticker = "AAPL"
    /\ initial_capital = InitialCapital
    /\ \E o \in BacktestInputs :
          /\ supplied = o
          /\ df = load_data(o)
    /\ Len(df.rows) >= 2                  \* line 136 has let the frame through
    /\ portfolio = <<>>
    /\ metrics = NoMetrics
    /\ summary = NoSummary
    /\ outcome = "none"
    /\ load_cache = NoCache
    /\ cache_src = NoSources
    /\ bt_cache = NoCache
    /\ supplier_calls = [k \in Keys |-> 0]
    /\ other = "none"
    /\ returned = {}
    /\ settled = NoCache
    /\ late_calls = [k \in Keys |-> 0]
    /\ last_load = "none"
    /\ stages = {}
    /\ df_before = EmptyFrame

NextBacktest ==
    \/ run_backtest_miss
    \/ run_backtest_KeyError
    \/ PerformanceSummary

SpecBacktest == InitBacktest /\ [][NextBacktest]_vars

-----------------------------------------------------------------------------
(* Properties *)

Backtested == "backtest" \in stages /\ "Position" \in df.cols

Dates == 1..Len(df.rows)

Capital == FromInt(initial_capital)

StrictlyRising(closes) == \A t \in 1..(Len(closes) - 1) : closes[t] < closes[t + 1]

ConstantCloses(closes) == \A t \in 1..Len(closes) : closes[t] = closes[1]

SupplierGaveNothing ==
    \/ supplied.kind = "fail"
    \/ supplied.kind = "rows" /\ Len(supplied.closes) = 0

\* C1: once run_backtest has run on a frame, every date of that frame carries
\* a signal of 0 or 1, and the signal is 1 exactly on the dates where SMA50
\* is strictly greater than SMA200 (so it is 0 where the two are equal).
C1_SignalIffFastAboveSlow ==
    Backtested =>
        \A t \in Dates :
            /\ df.rows[t].Signal \in {0, 1}
            /\ df.rows[t].Signal = 1 <=> FGt(df.rows[t].SMA50, df.rows[t].SMA200)
            /\ FEq(df.rows[t].SMA50, df.rows[t].SMA200) => df.rows[t].Signal = 0

\* C1 witness: a backtested frame with a date where the averages are equal
\* (signal 0) and a date where the signal is 1.
C1_Witness ==
    /\ Backtested
    /\ \E t \in Dates : /\ FEq(df.rows[t].SMA50, df.rows[t].SMA200)
                        /\ df.rows[t].Signal = 0
    /\ \E t \in Dates : df.rows[t].Signal = 1

\* C2: on every date the cash of the portfolio is the initial capital minus
\* the running sum, up to that date, of position change times holdings value
\* (shares held times close).  Both sides are computed with the same running
\* sum, so an undefined entry on one side matches an undefined entry on the
\* other.
C2_CashIsCapitalMinusHoldingsValue ==
    Backtested =>
        LET spent == CumSum(ColumnOf([s \in Dates |->
                        FMul(df.rows[s].Position,
                             FMul(portfolio[s].Holdings, df.rows[s].Close))]))
        IN  \A t \in Dates : portfolio[t].Cash = FSub(Capital, spent[t])

\* C3: on every date of the portfolio, the first included, the total is
\* defined and equals cash plus shares held times close.
C3_TotalDefinedOnEveryDate ==
    Backtested =>
        \A t \in Dates :
            /\ ~IsNaN(portfolio[t].Total)
            /\ FEq(portfolio[t].Total,
                   FAdd(portfolio[t].Cash,
                        FMul(portfolio[t].Holdings, df.rows[t].Close)))

\* C4: when the close is the same on every date of the series, the signal is
\* 0 on every date and the total equals the initial capital on every date,
\* the first included.
C4_FlatClosesKeepCapital ==
    (Backtested /\ ConstantCloses(supplied.closes)) =>
        \A t \in Dates :
            /\ df.rows[t].Signal = 0
            /\ FEq(portfolio[t].Total, Capital)

\* C5: for a strictly rising close series taken through load_data and
\* run_backtest, the final value of the summary is strictly greater than the
\* initial capital.
C5_RisingSeriesGains ==
    (outcome = "done" /\ StrictlyRising(supplied.closes)) =>
        FGt(summary.final_value, Capital)

\* C6: when the supplier raised or returned no rows for the call behind the
\* frame of this run, load_data has handed back an empty frame, and the run
\* goes no further than the warning of the emptiness check: no key metrics,
\* no backtest, no summary, no exception.
C6_NoDataStopsAtEmptinessCheck ==
    (SupplierGaveNothing /\ "load" \in stages) =>
        /\ Len(df.rows) = 0
        /\ stages \cap {"metrics", "backtest", "summary"} = {}
        /\ outcome \in {"none", "warning"}
        /\ pc \in {"check", "input"}
        /\ pc = "input" => outcome = "warning"

\* C6 witness: a run whose load called the supplier, the supplier raised,
\* load_data returned, and the run ended with the warning.
C6_Witness ==
    /\ supplied.kind = "fail"
    /\ last_load = "miss"
    /\ pc = "input"
    /\ outcome = "warning"

\* C7: when the frame reaching the key metrics has exactly one row, the run
\* ends with a guarded DegenerateSeries outcome and not with an uncaught
\* exception.
C7_OneRowIsGuarded ==
    (Len(df.rows) = 1 /\ "metrics" \in stages) =>
        /\ outcome = "DegenerateSeries"
        /\ outcome # "IndexError"

\* C8: after run_backtest the caller's frame has the columns and values it
\* had before the call.
C8_BacktestLeavesFrameUnchanged ==
    "backtest" \in stages => df = df_before

\* C9: on every date where the signal is 0 the shares held are exactly 0,
\* and on no date are the shares held negative.
C9_HoldingsBinaryLongFlat ==
    Backtested =>
        \A t \in Dates :
            /\ df.rows[t].Signal = 0 => FEq(portfolio[t].Holdings, FromInt(0))
            /\ ~FGt(FromInt(0), portfolio[t].Holdings)

\* a call of load_data for key k is running now
Running(k) == InFlight(k, pc, ticker, other)

\* C10, as stated: once load_data has been invoked for a key the supplier is
\* not called for that key again, whether or not the first call failed.
C10_SupplierCalledOncePerKey ==
    \A k \in Keys : supplier_calls[k] <= 1

\* C10, amended: what a call of load_data returns is stored, an empty frame
\* from a failure included; once a call for a key has returned and no other
\* call for that key is still running, the stored result never changes, the
\* supplier is not called for that key again, and every later call for the
\* key returns that result.
C10_LoadIsReadThrough ==
    /\ \A k \in Keys :
          /\ k \in returned => k \in DOMAIN load_cache
          /\ (k \in DOMAIN load_cache /\ ~Running(k)) => k \in DOMAIN settled
          /\ k \in DOMAIN settled =>
                /\ load_cache[k] = settled[k]
                /\ late_calls[k] = 0
    /\ (pc = "check" /\ last_load = "hit") => df = settled[ticker]

\* C10 witness: a call for a key whose earlier call failed and returned is
\* served from the cache with the empty frame of the failure.
C10_Witness ==
    /\ pc = "check"
    /\ last_load = "hit"
    /\ supplied.kind = "fail"
    /\ Empty(df)
    /\ late_calls[ticker] = 0
====
